---- MODULE Spec2Model ----
(***************************************************************************)
(* EDR: a terminal dashboard for a train-dispatch simulation.              *)
(* The model follows src/src/main.rs (driving loop, renderer entry         *)
(* points), src/src/state.rs (State, refresh_data, key handling, event     *)
(* ordering) and src/src/data.rs (records, Train::dist_from).              *)
(***************************************************************************)
EXTENDS Integers, Sequences, FiniteSets, TLC

\* ------------------------------------------------------------------------
\* Bounds of the model
\* ------------------------------------------------------------------------
MaxStations == 2
MaxTrains == 2
MaxStops == 3

\* ------------------------------------------------------------------------
\* Rust primitives
\* ------------------------------------------------------------------------
\* usize / isize: the width is kept (two's complement), 16 bits stand for
\* the 64 of the target so that the values stay inside TLC's integers.
UsizeBits == 16
USIZE_MAX == 2^UsizeBits - 1
as_isize(u) == IF u >= 2^(UsizeBits - 1) THEN u - 2^UsizeBits ELSE u
as_usize(i) == i % 2^UsizeBits

\* Option<T>
None == <<>>
Some(x) == <<x>>

\* Result<T, Box<dyn Error>> of a fetch (reqwest::get(..).await?.json().await?)
Err == <<"Err">>
Ok(x) == <<"Ok", x>>

SeqsUpTo(S, n) == UNION {[1..k -> S] : k \in 0..n}

\* ------------------------------------------------------------------------
\* Records of data.rs and the values the external services may return
\* ------------------------------------------------------------------------
ServerCodes == {"s1", "s2"}
Server(code) == [server_code |-> code]
\* GET /servers: no server, one, or both.
ServerLists == { <<>>, <<Server("s1")>>, <<Server("s1"), Server("s2")>> }

Station(n, p, by, lat, lon) ==
    [name |-> n, prefix |-> p, dispatched_by |-> by, latitude |-> lat, longitude |-> lon]
StationA == Station("A", "a", <<"p1">>, 0, 1)
StationB == Station("B", "b", <<>>, 1, 0)
StationC == Station("C", "c", <<>>, 3, 3)
\* GET /stations/{server} in the running loop, and in the dispatch-refresh
\* specification
StationLists == SeqsUpTo({StationA, StationB}, MaxStations)
EdrStationLists == SeqsUpTo({StationA, StationB, StationC}, MaxStations)

SteamPlayer(id, info) == [steam_id |-> id, steam_info |-> info]
PlayerLists == { <<SteamPlayer("p1", <<"Ann">>)>> }

TrainNos == {"1", "2"}
TrainPositions == { <<0, 0>>, <<1, 0>> }
Train(no, pos) ==
    [train_name |-> IF no = "1" THEN "IC" ELSE "RE",
     train_no |-> no,
     t |-> IF no = "1" THEN "bot" ELSE "user",
     latitude |-> pos[1], longitude |-> pos[2],
     loc |-> None]
Trains == {Train(no, <<0, 0>>) : no \in TrainNos}

\* A clock string "HH:MM" is the pair <<HH, MM>>.
StopDescription(n, st, arr, dep) ==
    [station |-> n, stop_type |-> st,
     line |-> IF n = "A" THEN "1" ELSE IF n = "B" THEN "2" ELSE "9",
     scheduled_arrival_hour |-> arr, scheduled_departure_hour |-> dep]

\* station_prefix.ron, loaded once by State::new: name -> prefix.
\* "X" is a timetable name the table does not know.
station_name_to_prefix == ("A" :> "a") @@ ("B" :> "b") @@ ("C" :> "c")

\* The static timetable of each train of the running loop.
Schedule(no) ==
    IF no = "1"
    THEN << StopDescription("A", None, Some(<<1, 0>>), None),
            StopDescription("B", Some("ph"), Some(<<1, 5>>), Some(<<1, 8>>)),
            StopDescription("X", None, Some(<<1, 20>>), None) >>
    ELSE << StopDescription("A", Some("ph"), Some(<<0, 0>>), Some(<<0, 2>>)),
            StopDescription("B", None, None, None),
            StopDescription("A", Some("pt"), Some(<<0, 30>>), Some(<<0, 31>>)) >>

\* What GET /trains and the GET /train/{no} of each train return in one
\* refresh of the running loop: Err, or the trains with their timetables.
\* A failed timetable fetch ends the call, so it is the last of a feed.
FeedEntry(tr, tt) == [train |-> tr, timetable |-> tt]
OkEntries == {FeedEntry(tr, Ok(Schedule(tr.train_no))) : tr \in Trains}
ErrEntries == {FeedEntry(tr, Err) : tr \in Trains}
LoopFeeds ==
    {Err} \cup
    { Ok(f) : f \in SeqsUpTo(OkEntries, MaxTrains) } \cup
    { Ok(Append(f, e)) : f \in SeqsUpTo(OkEntries, MaxTrains - 1), e \in ErrEntries }

\* Timetables of the dispatch-refresh specification: every sequence of rows
\* at A or B, of any stop type, and at the unknown X.
Names == {"A", "B"}
StopTypes == {None, Some("ph"), Some("pt")}
Rows ==
    {StopDescription(n, st, Some(<<1, 5>>), Some(<<1, 8>>)) : n \in Names, st \in StopTypes}
    \cup {StopDescription("X", None, Some(<<1, 5>>), Some(<<1, 8>>))}
Timetables == SeqsUpTo(Rows, MaxStops)
EdrFeeds ==
    {Err} \cup
    { Ok(<<FeedEntry(tr, tt)>>) : tr \in {Train("2", pos) : pos \in TrainPositions},
                                  tt \in {Err} \cup {Ok(x) : x \in Timetables} }

\* Timetables of the sorting specification: A, B, A with the row at B a
\* pass-through or a platform stop, its hours missing, 00:05 or 00:08, so
\* that events of one train and of several trains share a time.
SortHours == {None, Some(<<0, 5>>), Some(<<0, 8>>)}
SortTimetables ==
    { << StopDescription("A", None, Some(<<0, 1>>), None),
         StopDescription("B", Some("ph"), arr, dep),
         StopDescription("A", None, Some(<<0, 9>>), None) >> : arr \in SortHours, dep \in SortHours }
    \cup
    { << StopDescription("A", None, Some(<<0, 1>>), None),
         StopDescription("B", None, arr, None),
         StopDescription("A", None, Some(<<0, 9>>), None) >> : arr \in SortHours }
SortFeeds ==
    {Err} \cup
    { Ok(f) : f \in SeqsUpTo({FeedEntry(tr, Ok(tt)) : tr \in Trains, tt \in SortTimetables},
                             MaxTrains) }

\* ------------------------------------------------------------------------
\* State
\* ------------------------------------------------------------------------
VARIABLES
    servers, server_index, selected_server,     \* State (state.rs 13-15)
    stations, station_index, selected_station,  \* State (state.rs 17-20)
    players, step, events,                      \* State (state.rs 21-24)
    need_refresh_data, need_refresh_tui,        \* main (main.rs 45-46)
    pc,                 \* position of the process: "poll", "refresh", "draw", "exited", "panicked"
    overflow_checks,    \* build profile: TRUE = debug (arithmetic overflow panics), FALSE = release (wraps)
    key,                \* at main.rs 70: the key code this iteration handled, "none" if none
    refreshed,          \* at main.rs 78: why refresh_data ran in this iteration: "no", "flag", "timeout"
    returned,           \* what that refresh_data call returned: "none", "Ok", "Err"
    fetched_for,        \* the server named in the GET /stations request that gave the station list,
                        \* and the prefix of the station the events were aligned to (None: none yet)
    trace,              \* per train of the running refresh_data call: what the loop body did
    frame,              \* what the renderer was last handed
    stderr,             \* errors printed by exit()
    raw_mode            \* the terminal is in raw mode on the alternate screen (main.rs 34-36, 88-94)

vars == << servers, server_index, selected_server, stations, station_index,
           selected_station, players, step, events, need_refresh_data,
           need_refresh_tui, pc, overflow_checks, key, refreshed, trace,
           frame, stderr, raw_mode, returned, fetched_for >>

state_vars == << servers, server_index, selected_server, stations, station_index,
                 selected_station, players, step, events >>

\* The State value (state.rs 9-25) held by main.
Self ==
    [servers |-> servers, server_index |-> server_index, selected_server |-> selected_server,
     stations |-> stations, station_index |-> station_index,
     selected_station |-> selected_station, players |-> players, step |-> step,
     events |-> events]

Store(self) ==
    /\ servers' = self.servers
    /\ server_index' = self.server_index
    /\ selected_server' = self.selected_server
    /\ stations' = self.stations
    /\ station_index' = self.station_index
    /\ selected_station' = self.selected_station
    /\ players' = self.players
    /\ step' = self.step
    /\ events' = self.events

\* ------------------------------------------------------------------------
\* Key handling (state.rs 307-367)
\* ------------------------------------------------------------------------
\* What a &mut self method does: the State it leaves, the pair it returns,
\* or a panic.
Return(self, data, tui) == [self |-> self, ret |-> <<data, tui>>, panic |-> FALSE]
Panic(self) == [self |-> self, ret |-> <<FALSE, FALSE>>, panic |-> TRUE]

\* select that asks for a redraw only.
select_redraw_only(self) ==
    CASE self.step = "ServerSelection" ->
            IF self.server_index < Len(self.servers)
            THEN Return([self EXCEPT !.selected_server = self.servers[self.server_index + 1].server_code,
                                     !.step = "StationSelection"], FALSE, TRUE)
            ELSE Panic(self)
      [] self.step = "StationSelection" ->
            IF self.station_index < Len(self.stations)
            THEN Return([self EXCEPT !.selected_station = Some(self.stations[self.station_index + 1]),
                                     !.step = "EDR"], FALSE, TRUE)
            ELSE Panic(self)
      [] self.step = "EDR" -> Return(self, FALSE, FALSE)

\* select that opens the Dispatch view without capturing the station.
select_without_capture(self) ==
    CASE self.step = "ServerSelection" ->
            IF self.server_index < Len(self.servers)
            THEN Return([self EXCEPT !.selected_server = self.servers[self.server_index + 1].server_code,
                                     !.step = "StationSelection"], TRUE, TRUE)
            ELSE Panic(self)
      [] self.step = "StationSelection" -> Return([self EXCEPT !.step = "EDR"], TRUE, TRUE)
      [] self.step = "EDR" -> Return(self, FALSE, FALSE)

\* select with the index ignored: the first element is captured.
select_first(self) ==
    CASE self.step = "ServerSelection" ->
            IF self.server_index < Len(self.servers)
            THEN Return([self EXCEPT !.selected_server = self.servers[1].server_code,
                                     !.step = "StationSelection"], TRUE, TRUE)
            ELSE Panic(self)
      [] self.step = "StationSelection" ->
            IF self.station_index < Len(self.stations)
            THEN Return([self EXCEPT !.selected_station = Some(self.stations[1]),
                                     !.step = "EDR"], TRUE, TRUE)
            ELSE Panic(self)
      [] self.step = "EDR" -> Return(self, FALSE, FALSE)

select(self) ==
    CASE self.step = "ServerSelection" ->
            IF self.server_index < Len(self.servers)
            THEN Return([self EXCEPT
                            !.selected_server = self.servers[self.server_index + 1].server_code,
                            !.step = "StationSelection"], TRUE, TRUE)
            ELSE Panic(self)                       \* index out of bounds
      [] self.step = "StationSelection" ->
            IF self.station_index < Len(self.stations)
            THEN Return([self EXCEPT
                            !.selected_station = Some(self.stations[self.station_index + 1]),
                            !.step = "EDR"], TRUE, TRUE)
            ELSE Panic(self)                       \* index out of bounds
      [] self.step = "EDR" -> Return(self, FALSE, FALSE)

\* The index arithmetic of one arm of cursor: index + i in isize, wrapped
\* into the list; len - 1 is a usize subtraction.
\* cursor_index with `res > len` for `res >= len`: no wrap at the end.
cursor_index_no_wrap(index, len, i) ==
    LET res == as_isize(index) + i
    IN  IF res < 0
        THEN IF len = 0 /\ overflow_checks
             THEN None
             ELSE Some(as_usize(as_isize(as_usize(len - 1))))
        ELSE IF res > len THEN Some(0) ELSE Some(as_usize(res))

cursor_index(index, len, i) ==
    LET res == as_isize(index) + i
    IN  IF res < 0
        THEN IF len = 0 /\ overflow_checks
             THEN None                             \* attempt to subtract with overflow
             ELSE Some(as_usize(as_isize(as_usize(len - 1))))
        ELSE IF res >= len THEN Some(0) ELSE Some(as_usize(res))

cursor(self, i) ==
    CASE self.step = "ServerSelection" ->
            LET res == cursor_index(self.server_index, Len(self.servers), i)
            IN  IF res = None THEN Panic(self)
                ELSE Return([self EXCEPT !.server_index = res[1]], FALSE, TRUE)
      [] self.step = "StationSelection" ->
            LET res == cursor_index(self.station_index, Len(self.stations), i)
            IN  IF res = None THEN Panic(self)
                ELSE Return([self EXCEPT !.station_index = res[1]], FALSE, TRUE)
      [] self.step = "EDR" -> Return(self, FALSE, FALSE)

\* The KeyCode::Esc arm of key_pressed.
back(self) ==
    CASE self.step = "ServerSelection" -> Return(self, FALSE, FALSE)
      [] self.step = "StationSelection" ->
            Return([self EXCEPT !.step = "ServerSelection"], TRUE, FALSE)
      [] self.step = "EDR" ->
            Return([self EXCEPT !.step = "StationSelection"], TRUE, FALSE)

KeyCodes == {"Enter", "Up", "Down", "Esc", "Other"}

key_pressed(self, key_code) ==
    CASE key_code = "Enter" -> select(self)
      [] key_code = "Up" -> cursor(self, -1)
      [] key_code = "Down" -> cursor(self, 1)
      [] key_code = "Esc" -> back(self)
      [] OTHER -> Return(self, FALSE, FALSE)

\* ------------------------------------------------------------------------
\* Dispatch refresh: nearest station, alignment, synthesis (state.rs 148-291)
\* ------------------------------------------------------------------------
\* Train::dist_from (data.rs 74-87). The haversine distance is increasing in
\* a = sin^2(d_lat/2) + cos(lat_a) cos(lat_b) sin^2(d_lon/2); on the integer
\* grid of the model its small-angle form d_lat^2 + d_lon^2 stands for it.
dist_from(train, station) ==
    LET d_lat == train.latitude - station.latitude
        d_lon == train.longitude - station.longitude
    IN  d_lat * d_lat + d_lon * d_lon

\* f32::total_cmp on two distances.
total_cmp(d1, d2) == IF d1 < d2 THEN "Less" ELSE IF d1 = d2 THEN "Equal" ELSE "Greater"

\* The closure handed to reduce (state.rs 163-167): (sa, d1) is the
\* accumulator, (sb, d2) the next station.
\* reduce_step with the Equal arm taking the later station.
reduce_step_last_wins(sa, d1, sb, d2) ==
    CASE total_cmp(d1, d2) = "Less" -> <<sa, d1>>
      [] total_cmp(d1, d2) = "Equal" -> <<sb, d2>>
      [] total_cmp(d1, d2) = "Greater" -> <<sb, d2>>

reduce_step(sa, d1, sb, d2) ==
    CASE total_cmp(d1, d2) = "Less" -> <<sa, d1>>
      [] total_cmp(d1, d2) = "Equal" -> <<sa, d1>>
      [] total_cmp(d1, d2) = "Greater" -> <<sb, d2>>

RECURSIVE reduce(_, _, _, _)
reduce(train, sts, i, acc) ==
    IF i > Len(sts) THEN acc
    ELSE reduce(train, sts, i + 1,
                reduce_step(acc[1], acc[2], sts[i], dist_from(train, sts[i])))

\* self.stations.iter().map(|s| (s, train.dist_from(s))).reduce(..)
nearest(train, sts) ==
    IF sts = <<>> THEN None
    ELSE Some(reduce(train, sts, 2, <<sts[1], dist_from(train, sts[1])>>))

get_prefix(station) ==
    IF station \in DOMAIN station_name_to_prefix
    THEN Some(station_name_to_prefix[station]) ELSE None

\* position taking the last matching row.
position_last(timetable, prefix) ==
    LET hits == {i \in 1..Len(timetable) : get_prefix(timetable[i].station) = Some(prefix)}
    IN  IF hits = {} THEN None
        ELSE Some((CHOOSE i \in hits : \A j \in hits : i >= j) - 1)

\* timetable.iter().position(|s| get_prefix(&s.station) == Some(prefix)),
\* a 0-based index.
position(timetable, prefix) ==
    LET hits == {i \in 1..Len(timetable) : get_prefix(timetable[i].station) = Some(prefix)}
    IN  IF hits = {} THEN None
        ELSE Some((CHOOSE i \in hits : \A j \in hits : i <= j) - 1)

\* map_or(0, |time| hh * 60 + mm) on an Option<"HH:MM">
parse_hour(o) == IF o = None THEN 0 ELSE o[1][1] * 60 + o[1][2]

\* format!("{}/L.{}", station, line)
label(station, line) == <<station, "/L.", line>>

Event(train, time, ty, prev, next) ==
    [name |-> <<train.train_name, " ", train.train_no>>,
     time |-> time, planned_time |-> time, ty |-> ty,
     player |-> train.t # "bot", prev |-> prev, next |-> next]

\* synthesize with the next label carrying the line of the next row.
synthesize_next_line(train, stop, next_stop, prev_stop) ==
    IF stop.stop_type # None
    THEN IF stop.stop_type[1] = "ph"
         THEN LET arrival == parse_hour(stop.scheduled_arrival_hour)
                  departure == parse_hour(stop.scheduled_departure_hour)
              IN  << Event(train, arrival, "Entering",
                           label(prev_stop.station, prev_stop.line),
                           <<"platform (", departure - arrival, ")">>),
                     Event(train, departure, "Departing",
                           <<"Platform">>,
                           label(next_stop.station, next_stop.line)) >>
         ELSE << >>
    ELSE LET passing == parse_hour(stop.scheduled_arrival_hour)
         IN  << Event(train, passing, "Passing",
                      label(prev_stop.station, prev_stop.line),
                      label(next_stop.station, next_stop.line)) >>

\* The events pushed for an aligned row (state.rs 203-285); stop, next_stop
\* and prev_stop are the rows already looked up.
synthesize(train, stop, next_stop, prev_stop) ==
    IF stop.stop_type # None
    THEN IF stop.stop_type[1] = "ph"
         THEN LET arrival == parse_hour(stop.scheduled_arrival_hour)
                  departure == parse_hour(stop.scheduled_departure_hour)
              IN  << Event(train, arrival, "Entering",
                           label(prev_stop.station, prev_stop.line),
                           <<"platform (", departure - arrival, ")">>),
                     Event(train, departure, "Departing",
                           <<"Platform">>,
                           label(next_stop.station, stop.line)) >>
         ELSE << >>
    ELSE LET passing == parse_hour(stop.scheduled_arrival_hour)
         IN  << Event(train, passing, "Passing",
                      label(prev_stop.station, prev_stop.line),
                      label(next_stop.station, stop.line)) >>

\* aligned without the comparison.
aligned_always(train_pos, station_pos) == TRUE

\* train_pos <= station_pos (state.rs 199)
aligned(train_pos, station_pos) == train_pos <= station_pos

\* What one iteration of the loop over the trains did: the train (with the
\* loc it was given), whether its timetable was fetched, the timetable and
\* how long it is, the two positions found, the row at station_pos, the
\* number of events pushed and how the iteration ended.
TrainLog(train, fetched, timetable, train_pos, station_pos, stop, pushed, outcome) ==
    [train |-> train, fetched |-> fetched, timetable |-> timetable, len |-> Len(timetable),
     train_pos |-> train_pos, station_pos |-> station_pos, stop |-> stop,
     pushed |-> pushed, outcome |-> outcome]

\* One iteration of `for train in trains.iter_mut()` (state.rs 158-290):
\* the outcome ("Ok", "Err" of the timetable fetch, "Panic"), the events
\* pushed and what the iteration found.
train_body(self, entry) ==
    LET train == entry.train
        near == nearest(train, self.stations)
        loc == near[1][1].prefix
        timetable == entry.timetable[2]
        train_pos == position(timetable, loc)
        station_pos == position(timetable, self.selected_station[1].prefix)
        n == Len(timetable)
        log(fetched, tp, sp, stop, evs, outcome) ==
            [outcome |-> outcome, pushed |-> evs,
             log |-> TrainLog(IF near = None THEN train
                              ELSE [train EXCEPT !.loc = Some(loc)],   \* train.loc = Some(loc)
                              fetched, IF fetched THEN timetable ELSE <<>>,
                              tp, sp, stop, Len(evs), outcome)]
    IN  IF near = None THEN log(FALSE, None, None, None, <<>>, "Ok")
        ELSE IF entry.timetable = Err THEN log(FALSE, None, None, None, <<>>, "Err")
        ELSE IF train_pos = None THEN log(TRUE, None, None, None, <<>>, "Ok")
        ELSE IF self.selected_station = None           \* expect("no selected station")
             THEN log(TRUE, train_pos, None, None, <<>>, "Panic")
        ELSE IF station_pos = None THEN log(TRUE, train_pos, None, None, <<>>, "Ok")
        ELSE IF ~aligned(train_pos[1], station_pos[1])
             THEN log(TRUE, train_pos, station_pos, None, <<>>, "Ok")
        ELSE LET sp == station_pos[1]
                 stop == timetable[sp + 1]
             IN  IF sp + 1 >= n                        \* timetable[station_pos + 1]
                 THEN log(TRUE, train_pos, station_pos, Some(stop), <<>>, "Panic")
                 ELSE IF sp = 0                        \* timetable[station_pos - 1]
                 THEN log(TRUE, train_pos, station_pos, Some(stop), <<>>, "Panic")
                 ELSE log(TRUE, train_pos, station_pos, Some(stop),
                          synthesize(train, stop, timetable[sp + 2], timetable[sp]), "Ok")

RECURSIVE for_trains(_, _, _, _)
for_trains(self, feed, i, tr) ==
    IF i > Len(feed) THEN [self |-> self, result |-> "Ok", trace |-> tr]
    ELSE LET r == train_body(self, feed[i])
             next == [self EXCEPT !.events = self.events \o r.pushed]
         IN  IF r.outcome = "Ok"
             THEN for_trains(next, feed, i + 1, Append(tr, r.log))
             ELSE [self |-> next, result |-> r.outcome, trace |-> Append(tr, r.log)]

\* refresh_edr without self.events.clear().
refresh_edr_merging(self, trains) ==
    IF trains = Err
    THEN [self |-> self, result |-> "Err", trace |-> <<>>]
    ELSE for_trains(self, trains[2], 1, <<>>)

\* The Step::EDR arm of refresh_data; trains is what GET /trains returns.
refresh_edr(self, trains) ==
    LET cleared == [self EXCEPT !.events = <<>>]       \* self.events.clear()
    IN  IF trains = Err
        THEN [self |-> cleared, result |-> "Err", trace |-> <<>>]
        ELSE for_trains(cleared, trains[2], 1, <<>>)

\* ------------------------------------------------------------------------
\* refresh_data (state.rs 112-294)
\* ------------------------------------------------------------------------
\* The Step::ServerSelection arm; fetched is what GET /servers returns.
refresh_servers(self, fetched) ==
    IF fetched = Err
    THEN [self |-> self, result |-> "Err", trace |-> <<>>]
    ELSE [self |-> [self EXCEPT !.servers = fetched[2]], result |-> "Ok", trace |-> <<>>]

RECURSIVE steam_ids(_)
\* stations.iter().flat_map(|s| &s.dispatched_by).map(|by| by.steam_id.clone())
steam_ids(sts) ==
    IF sts = <<>> THEN <<>> ELSE sts[1].dispatched_by \o steam_ids(Tail(sts))

\* The Step::StationSelection arm; fetched is what GET /stations/{server}
\* returns and identities what GET /users-open/{ids} returns if it is asked.
refresh_stations(self, fetched, identities) ==
    IF fetched = Err
    THEN [self |-> self, result |-> "Err", trace |-> <<>>]
    ELSE LET got == [self EXCEPT !.stations = fetched[2]]
             player == steam_ids(got.stations)
         IN  IF player # <<>>
             THEN IF identities = Err
                  THEN [self |-> got, result |-> "Err", trace |-> <<>>]
                  ELSE [self |-> [got EXCEPT !.players = identities[2]],
                        result |-> "Ok", trace |-> <<>>]
             ELSE [self |-> got, result |-> "Ok", trace |-> <<>>]

\* input = <<first fetch, second fetch>>: what the services answer to this call.
refresh_data(self, input) ==
    CASE self.step = "ServerSelection" -> refresh_servers(self, input[1])
      [] self.step = "StationSelection" -> refresh_stations(self, input[1], input[2])
      [] self.step = "EDR" -> refresh_edr(self, input[1])

Fetch(S) == {Err} \cup {Ok(x) : x \in S}

\* The answers the services can give to a refresh_data call in view st;
\* Feeds are the possible answers of the train services.
RefreshInputs(st, Feeds) ==
    CASE st = "ServerSelection" -> {<<f, Err>> : f \in Fetch(ServerLists)}
      [] st = "StationSelection" -> Fetch(StationLists) \X Fetch(PlayerLists)
      [] st = "EDR" -> {<<f, Err>> : f \in Feeds}

\* What the data of self was requested for once refresh_data has run on
\* input: the station list comes from GET /stations/{selected_server}
\* (state.rs 122-128) when that fetch succeeds, the events are rebuilt
\* against the prefix of selected_station (state.rs 149, 187-198).
requests(self, input) ==
    CASE self.step = "StationSelection" /\ input[1] # Err ->
            [fetched_for EXCEPT !.stations = Some(self.selected_server)]
      [] self.step = "EDR" /\ self.selected_station # None ->
            [fetched_for EXCEPT !.events = Some(self.selected_station[1].prefix)]
      [] OTHER -> fetched_for

\* get_player_name (state.rs 296-305)
get_player_name(self, steam_id) ==
    IF steam_id = None THEN None
    ELSE LET hits == {i \in 1..Len(self.players) : self.players[i].steam_id = steam_id[1]}
         IN  IF hits = {} THEN None
             ELSE Some(self.players[CHOOSE i \in hits : \A j \in hits : i <= j].steam_info[1])

\* ------------------------------------------------------------------------
\* Event ordering and the renderer entry points (state.rs 62-78, main.rs 101-227)
\* ------------------------------------------------------------------------
\* isize::partial_cmp
cmp_isize(a, b) == IF a < b THEN "Less" ELSE IF a = b THEN "Equal" ELSE "Greater"

\* impl PartialOrd for Event (state.rs 68-78)
partial_cmp(self, other) ==
    IF self.planned_time # 0
    THEN Some(cmp_isize(self.time, other.time))
    ELSE IF other.planned_time = 0
         THEN Some("Equal")
         ELSE Some("Greater")

\* lt that also holds of equal events.
lt_or_equal(a, b) == partial_cmp(a, b) \in {Some("Less"), Some("Equal")}

\* PartialOrd::lt, the comparison slice::sort is built on (it never calls
\* Ord::cmp, which state.rs 62-66 leaves as todo!()).
lt(a, b) == partial_cmp(a, b) = Some("Less")

\* slice::sort on a short slice is an insertion sort; the standard library
\* has shipped two: inserting each element into the sorted tail to its right
\* ("insert_head") and into the sorted head to its left ("insert_tail").
RECURSIVE insert_head(_, _)
insert_head(x, w) ==
    IF w # <<>> /\ lt(w[1], x) THEN <<w[1]>> \o insert_head(x, Tail(w)) ELSE <<x>> \o w

RECURSIVE insert_tail(_, _)
insert_tail(w, x) ==
    IF w # <<>> /\ lt(x, w[Len(w)])
    THEN Append(insert_tail(SubSeq(w, 1, Len(w) - 1), x), w[Len(w)])
    ELSE Append(w, x)

RECURSIVE sort_from(_, _, _, _)
sort_from(alg, v, i, acc) ==
    IF alg = "insert_head"
    THEN IF i < 1 THEN acc ELSE sort_from(alg, v, i - 1, insert_head(v[i], acc))
    ELSE IF i > Len(v) THEN acc ELSE sort_from(alg, v, i + 1, insert_tail(acc, v[i]))

SortAlgorithms == {"insert_head", "insert_tail"}

\* state.events.sort() (main.rs 110)
sort(alg, v) == IF alg = "insert_head" THEN sort_from(alg, v, Len(v), <<>>)
                ELSE sort_from(alg, v, 1, <<>>)

\* Event::get_time is a rendering of (time, planned_time); the row keeps both.
Frame(view, title, rows, selected) ==
    [view |-> view, title |-> title, rows |-> rows, selected |-> selected]

draw_server_selection(self) ==
    [self |-> self, panic |-> FALSE,
     frame |-> Frame("ServerSelection", <<"Server Selection">>,
                     [i \in 1..Len(self.servers) |-> self.servers[i].server_code],
                     Some(self.server_index))]

RECURSIVE player_names(_, _)
player_names(self, by) ==
    IF by = <<>> THEN <<>>
    ELSE get_player_name(self, Some(by[1])) \o player_names(self, Tail(by))

draw_station_selection(self) ==
    [self |-> self, panic |-> FALSE,
     frame |-> Frame("StationSelection", <<self.selected_server, "/Station Selection">>,
                     [i \in 1..Len(self.stations) |->
                        <<self.stations[i].prefix, self.stations[i].name,
                          player_names(self, self.stations[i].dispatched_by)>>],
                     Some(self.station_index))]

draw_edr(self, alg) ==
    LET sorted == [self EXCEPT !.events = sort(alg, self.events)]
    IN  IF self.selected_station = None                \* expect("selected station is none")
        THEN [self |-> sorted, panic |-> TRUE, frame |-> frame]
        ELSE [self |-> sorted, panic |-> FALSE,
              frame |-> Frame("EDR", <<self.selected_server, "/", self.selected_station[1].name>>,
                              sorted.events, None)]

\* draw that replaces the station list while drawing.
draw_refetching(self, alg) ==
    [self |-> [self EXCEPT !.stations = <<>>], panic |-> FALSE, frame |-> frame]

draw(self, alg) ==
    CASE self.step = "ServerSelection" -> draw_server_selection(self)
      [] self.step = "StationSelection" -> draw_station_selection(self)
      [] self.step = "EDR" -> draw_edr(self, alg)

\* ------------------------------------------------------------------------
\* The driving loop (main.rs 33-99)
\* ------------------------------------------------------------------------
\* main up to the loop: State::new() has fetched the servers and the first
\* frame is drawn.
NewState(fetched) ==
    [servers |-> fetched, server_index |-> 0, selected_server |-> "",
     stations |-> <<>>, station_index |-> 0, selected_station |-> None,
     players |-> <<>>, step |-> "ServerSelection", events |-> <<>>]

Init ==
    \E fetched \in ServerLists :
        /\ servers = fetched
        /\ server_index = 0
        /\ selected_server = ""
        /\ stations = <<>>
        /\ station_index = 0
        /\ selected_station = None
        /\ players = <<>>
        /\ step = "ServerSelection"
        /\ events = <<>>
        /\ need_refresh_data = FALSE
        /\ need_refresh_tui = FALSE
        /\ pc = "poll"
        /\ overflow_checks \in BOOLEAN
        /\ key = "none"
        /\ refreshed = "no"
        /\ returned = "none"
        /\ fetched_for = [stations |-> None, events |-> None]
        /\ trace = <<>>
        /\ frame = draw_server_selection(NewState(fetched)).frame
        /\ stderr = <<>>
        /\ raw_mode = TRUE

\* exit that prints the error and lets the loop go on.
exit_resume(err) ==
    /\ raw_mode' = raw_mode
    /\ stderr' = IF err = None THEN stderr ELSE Append(stderr, err[1])
    /\ pc' = IF err = None THEN "exited" ELSE "draw"

\* exit (main.rs 84-99): the terminal leaves raw mode and the alternate
\* screen, the error if any is printed, the process ends.
exit(err) ==
    /\ raw_mode' = FALSE
    /\ stderr' = IF err = None THEN stderr ELSE Append(stderr, err[1])
    /\ pc' = "exited"

\* the flag test with the redraw flag taken for a refresh request.
refresh_required_any(data, tui) == data \/ tui

\* The flag half of the test at main.rs 70: need_refresh_data alone asks for
\* a refresh; need_refresh_tui is read at main.rs 78 only.
refresh_required(data, tui) == data

\* poll() reports a key press other than 'q' (main.rs 55-66): key_pressed
\* runs and its pair becomes the two flags.
KeyEvent ==
    /\ pc = "poll"
    /\ \E key_code \in KeyCodes :
        LET r == key_pressed(Self, key_code)
        IN  /\ key' = key_code
            /\ Store(r.self)
            /\ IF r.panic
               THEN /\ pc' = "panicked"
                    /\ UNCHANGED <<need_refresh_data, need_refresh_tui>>
               ELSE /\ pc' = "refresh"
                    /\ need_refresh_data' = r.ret[1]
                    /\ need_refresh_tui' = r.ret[2]
    /\ UNCHANGED <<overflow_checks, refreshed, returned, fetched_for, trace, frame, stderr,
                   raw_mode>>

\* KeyCode::Char('q'): exit(terminal, None) (main.rs 62, 84-99)
Quit ==
    /\ pc = "poll"
    /\ key' = "q"
    /\ exit(None)
    /\ UNCHANGED <<state_vars, need_refresh_data, need_refresh_tui, overflow_checks,
                   refreshed, returned, fetched_for, trace, frame>>

\* poll() times out, or reports an event that is no key press: the flags
\* keep their values (main.rs 55-68). (A key release only restarts the
\* iteration and changes nothing.)
NoKey ==
    /\ pc = "poll"
    /\ key' = "none"
    /\ pc' = "refresh"
    /\ UNCHANGED <<state_vars, need_refresh_data, need_refresh_tui, overflow_checks,
                   refreshed, returned, fetched_for, trace, frame, stderr, raw_mode>>

\* main.rs 70-76 when the condition holds: need_refresh_data is set, or the
\* clock (an input) says that the refresh period has elapsed. refresh_data
\* runs; an error leaves through exit_on_error, a panic aborts the process.
Refresh(Feeds) ==
    /\ pc = "refresh"
    /\ refreshed' = IF refresh_required(need_refresh_data, need_refresh_tui)
                    THEN "flag" ELSE "timeout"
    /\ \E input \in RefreshInputs(step, Feeds) :
        LET r == refresh_data(Self, input)
        IN  /\ Store(r.self)
            /\ trace' = r.trace
            /\ returned' = IF r.result = "Panic" THEN "none" ELSE r.result
            /\ fetched_for' = requests(Self, input)
            /\ CASE r.result = "Ok" ->
                      /\ need_refresh_data' = FALSE
                      /\ need_refresh_tui' = TRUE
                      /\ pc' = "draw"
                      /\ UNCHANGED <<stderr, raw_mode>>
                 [] r.result = "Err" ->                 \* exit_on_error!
                      /\ exit(Some("NetworkFailure"))
                      /\ UNCHANGED <<need_refresh_data, need_refresh_tui>>
                 [] r.result = "Panic" ->
                      /\ pc' = "panicked"
                      /\ UNCHANGED <<need_refresh_data, need_refresh_tui, stderr, raw_mode>>
    /\ key' = "none"
    /\ UNCHANGED <<overflow_checks, frame>>

\* main.rs 70 when the condition fails: no flag, period not elapsed.
SkipRefresh ==
    /\ pc = "refresh"
    /\ ~refresh_required(need_refresh_data, need_refresh_tui)
    /\ refreshed' = "no"
    /\ returned' = "none"
    /\ key' = "none"
    /\ pc' = "draw"
    /\ UNCHANGED <<state_vars, need_refresh_data, need_refresh_tui, overflow_checks,
                   fetched_for, trace, frame, stderr, raw_mode>>

\* main.rs 78-80 and the end of the iteration: its locals are dropped.
Draw ==
    /\ pc = "draw"
    /\ IF need_refresh_tui
       THEN \E alg \in SortAlgorithms :
            LET r == draw(Self, alg)
            IN  /\ Store(r.self)
                /\ frame' = r.frame
                /\ pc' = IF r.panic THEN "panicked" ELSE "poll"
       ELSE /\ pc' = "poll"
            /\ UNCHANGED <<state_vars, frame>>
    /\ refreshed' = "no"
    /\ returned' = "none"
    /\ trace' = <<>>
    /\ UNCHANGED <<need_refresh_data, need_refresh_tui, overflow_checks, key, fetched_for,
                   stderr, raw_mode>>

Next ==
    \/ KeyEvent
    \/ Quit
    \/ NoKey
    \/ Refresh(LoopFeeds)
    \/ SkipRefresh
    \/ Draw

Spec == Init /\ [][Next]_vars

\* ------------------------------------------------------------------------
\* The Dispatch refresh on its own: the loop stands at main.rs 70 right
\* after select() opened the Dispatch view, and the train services may
\* answer with any timetable.
\* ------------------------------------------------------------------------
InitEdr ==
    \E sts \in EdrStationLists \ {<<>>}, index \in 0..(MaxStations - 1), code \in {"s1"} :
        /\ index < Len(sts)
        /\ servers = <<Server(code)>>
        /\ server_index = 0
        /\ selected_server = code
        /\ stations = sts
        /\ station_index = index
        /\ selected_station = Some(sts[index + 1])
        /\ players = <<>>
        /\ step = "EDR"
        /\ events = <<>>
        /\ need_refresh_data = TRUE
        /\ need_refresh_tui = TRUE
        /\ pc = "refresh"
        /\ overflow_checks = TRUE
        /\ key = "Enter"
        /\ refreshed = "no"
        /\ returned = "none"
        /\ fetched_for = [stations |-> Some("s1"), events |-> None]
        /\ trace = <<>>
        /\ frame = draw_station_selection([NewState(<<Server(code)>>) EXCEPT
                        !.selected_server = code, !.stations = sts,
                        !.station_index = index, !.step = "StationSelection"]).frame
        /\ stderr = <<>>
        /\ raw_mode = TRUE

NextEdr ==
    \/ Refresh(EdrFeeds)
    \/ Draw

SpecEdr == InitEdr /\ [][NextEdr]_vars

\* ------------------------------------------------------------------------
\* refresh_data as a function of State: State and its fields are pub, and
\* the Dispatch arm reads stations and selected_station as it finds them.
\* Here it is applied to every State in the Dispatch view, the station list
\* being any list (the empty one included) and the selected station any
\* station, whether or not select() could have captured it from that list.
\* ------------------------------------------------------------------------
InitData ==
    \E sts \in EdrStationLists, sel \in {StationA, StationB} :
        /\ servers = <<Server("s1")>>
        /\ server_index = 0
        /\ selected_server = "s1"
        /\ stations = sts
        /\ station_index = 0
        /\ selected_station = Some(sel)
        /\ players = <<>>
        /\ step = "EDR"
        /\ events = <<>>
        /\ need_refresh_data = TRUE
        /\ need_refresh_tui = TRUE
        /\ pc = "refresh"
        /\ overflow_checks = TRUE
        /\ key = "Enter"
        /\ refreshed = "no"
        /\ returned = "none"
        /\ fetched_for = [stations |-> Some("s1"), events |-> None]
        /\ trace = <<>>
        /\ frame = draw_station_selection([NewState(<<Server("s1")>>) EXCEPT
                        !.selected_server = "s1", !.stations = sts,
                        !.step = "StationSelection"]).frame
        /\ stderr = <<>>
        /\ raw_mode = TRUE

NextData ==
    \/ Refresh(LoopFeeds)
    \/ Draw

SpecData == InitData /\ [][NextData]_vars

\* ------------------------------------------------------------------------
\* Refresh and redraw of the Dispatch view of station B, stations [A, B],
\* over feeds whose events share times.
\* ------------------------------------------------------------------------
InitSort ==
    /\ servers = <<Server("s1")>>
    /\ server_index = 0
    /\ selected_server = "s1"
    /\ stations = <<StationA, StationB>>
    /\ station_index = 1
    /\ selected_station = Some(StationB)
    /\ players = <<SteamPlayer("p1", <<"Ann">>)>>
    /\ step = "EDR"
    /\ events = <<>>
    /\ need_refresh_data = TRUE
    /\ need_refresh_tui = TRUE
    /\ pc = "refresh"
    /\ overflow_checks \in BOOLEAN
    /\ key = "Enter"
    /\ refreshed = "no"
    /\ returned = "none"
    /\ fetched_for = [stations |-> Some("s1"), events |-> None]
    /\ trace = <<>>
    /\ frame = draw_station_selection([NewState(<<Server("s1")>>) EXCEPT
                    !.selected_server = "s1", !.stations = <<StationA, StationB>>,
                    !.station_index = 1, !.players = <<SteamPlayer("p1", <<"Ann">>)>>,
                    !.step = "StationSelection"]).frame
    /\ stderr = <<>>
    /\ raw_mode = TRUE

NextSort ==
    \/ Refresh(SortFeeds)
    \/ Draw

SpecSort == InitSort /\ [][NextSort]_vars

\* ========================================================================
\* Properties
\* ========================================================================
\* A Dispatch refresh has run in this loop iteration (or ended the process):
\* trace holds what it did and events what it left.
RefreshedEdr == step = "EDR" /\ refreshed # "no"

\* A train of the trace whose anchor and target rows were both found.
Found(l) == l.train_pos # None /\ l.station_pos # None

RECURSIVE SumPushed(_)
SumPushed(tr) == IF tr = <<>> THEN 0 ELSE tr[1].pushed + SumPushed(Tail(tr))

\* The selection list of the active view and its index.
ActiveList == IF step = "ServerSelection" THEN servers ELSE stations
ActiveIndex == IF step = "ServerSelection" THEN server_index ELSE station_index

\* A step of the loop that handles key code k.
Pressed(k) == pc = "poll" /\ key' = k

\* C1: a back transition (Esc out of StationSelection or out of Dispatch)
\* requests a redraw only: key_pressed returns (no refresh, redraw), and the
\* iteration that handled the key does not run refresh_data on account of
\* need_refresh_data, so the fetched lists stay as they are.
C1_BackRedrawOnly ==
    [][ /\ (Pressed("Esc") /\ step' # step)
            => /\ ~need_refresh_data' /\ need_refresh_tui'
               /\ servers' = servers /\ stations' = stations
        /\ (pc = "refresh" /\ key = "Esc") => refreshed' # "flag" ]_vars

\* C2: select() (Enter) on a server list whose server_index names a server
\* moves ServerSelection to StationSelection and captures that server's code;
\* on a station list whose station_index names a station it moves
\* StationSelection to Dispatch and captures that station; both request a
\* data refresh and a redraw. In Dispatch it changes nothing and requests
\* neither.
C2_Select ==
    [][ Pressed("Enter") =>
          CASE step = "ServerSelection" /\ server_index < Len(servers) ->
                  /\ pc' = "refresh"
                  /\ step' = "StationSelection"
                  /\ selected_server' = servers[server_index + 1].server_code
                  /\ need_refresh_data' /\ need_refresh_tui'
                  /\ UNCHANGED <<servers, server_index, stations, station_index,
                                 selected_station, players, events>>
            [] step = "StationSelection" /\ station_index < Len(stations) ->
                  /\ pc' = "refresh"
                  /\ step' = "EDR"
                  /\ selected_station' = Some(stations[station_index + 1])
                  /\ need_refresh_data' /\ need_refresh_tui'
                  /\ UNCHANGED <<servers, server_index, selected_server, stations,
                                 station_index, players, events>>
            [] step = "EDR" ->
                  /\ pc' = "refresh"
                  /\ ~need_refresh_data' /\ ~need_refresh_tui'
                  /\ UNCHANGED state_vars
            [] OTHER -> TRUE ]_vars

\* C2 witness: Enter on the second station of a list has opened the Dispatch
\* view with that station captured.
C2_Witness ==
    /\ pc = "refresh" /\ key = "Enter" /\ step = "EDR"
    /\ station_index = 1 /\ Len(stations) = 2 /\ stations[1] # stations[2]
    /\ selected_station = Some(stations[2])
    /\ need_refresh_data /\ need_refresh_tui

\* C3: a Dispatch refresh that ends with a network error leaves the events
\* as they were when it began.
C3_FailedRefreshKeepsEvents ==
    [][ (pc = "refresh" /\ step = "EDR" /\ pc' = "exited") => events' = events ]_vars

\* C4: every redraw of the Dispatch view completes (a process that panicked
\* in Dispatch did so handling a key or refreshing, never drawing) and hands
\* the renderer the events in non-decreasing order of effective time.
C4_FrameSorted ==
    /\ (pc = "panicked" /\ step = "EDR") => refreshed # "no" \/ key # "none"
    /\ frame.view = "EDR" =>
          \A i, j \in 1..Len(frame.rows) : i < j => frame.rows[i].time <= frame.rows[j].time

\* C5: a train aligned to the first or to the last row of its timetable
\* does not panic.
C5_BoundaryClamps ==
    RefreshedEdr =>
        \A i \in 1..Len(trace) :
            LET l == trace[i]
            IN  (/\ Found(l)
                 /\ l.train_pos[1] <= l.station_pos[1]
                 /\ (l.station_pos[1] = 0 \/ l.station_pos[1] = l.len - 1))
                => l.outcome # "Panic"

\* C6: for every aligned train (anchor index <= target index) whose rows
\* were looked up, two events are pushed when the target row carries a stop
\* type and one when it carries none.
C6_EventCount ==
    RefreshedEdr =>
        \A i \in 1..Len(trace) :
            LET l == trace[i]
            IN  (Found(l) /\ l.train_pos[1] <= l.station_pos[1] /\ l.outcome = "Ok")
                => l.pushed = IF l.stop[1].stop_type # None THEN 2 ELSE 1

\* C7: a train whose anchor row comes after the row of the selected station
\* pushes no event, and the events the refresh leaves are those its trains
\* pushed.
C7_PastTargetNoEvent ==
    RefreshedEdr =>
        /\ \A i \in 1..Len(trace) :
              (Found(trace[i]) /\ trace[i].train_pos[1] > trace[i].station_pos[1])
                  => trace[i].pushed = 0
        /\ pc # "poll" => Len(events) = SumPushed(trace)

\* C7 witness: a train was found past the selected station and the refresh
\* went on.
C7_Witness ==
    /\ RefreshedEdr /\ pc = "draw" /\ Len(trace) = 1
    /\ Found(trace[1]) /\ trace[1].train_pos[1] > trace[1].station_pos[1]
    /\ trace[1].station_pos[1] > 0 /\ trace[1].station_pos[1] < trace[1].len - 1

\* C8: the loc given to a train is the prefix of a station of minimal
\* distance, the first such station in the list; a non-empty list always
\* gives one.
C8_NearestFirstWins ==
    RefreshedEdr =>
        \A i \in 1..Len(trace) :
            LET tr == trace[i].train
            IN  IF stations = <<>> THEN tr.loc = None
                ELSE \E k \in 1..Len(stations) :
                        /\ tr.loc = Some(stations[k].prefix)
                        /\ \A j \in 1..Len(stations) :
                              dist_from(tr, stations[k]) <= dist_from(tr, stations[j])
                        /\ \A j \in 1..(k - 1) :
                              dist_from(tr, stations[k]) < dist_from(tr, stations[j])

\* C8 witness: two stations at the same distance from the train, the one
\* listed first (B before A) was taken.
C8_Witness ==
    /\ RefreshedEdr /\ Len(trace) = 1
    /\ stations = <<StationB, StationA>>
    /\ dist_from(trace[1].train, StationA) = dist_from(trace[1].train, StationB)
    /\ trace[1].train.loc = Some("b")

\* C9: on a non-empty list of length N with the index on one of its
\* elements, Up at index 0 gives N-1, Down at N-1 gives 0, every other Up
\* or Down moves the index by one; no Up or Down changes the view or
\* requests a data refresh.
C9_CursorWraps ==
    [][ (Pressed("Up") \/ Pressed("Down")) =>
          /\ step' = step
          /\ need_refresh_data' = FALSE
          /\ (step # "EDR" /\ ActiveIndex < Len(ActiveList)) =>
                /\ pc' = "refresh"
                /\ ActiveIndex' =
                      IF key' = "Up"
                      THEN IF ActiveIndex = 0 THEN Len(ActiveList) - 1 ELSE ActiveIndex - 1
                      ELSE IF ActiveIndex = Len(ActiveList) - 1 THEN 0 ELSE ActiveIndex + 1
                /\ UNCHANGED <<servers, stations>> ]_vars

\* C9 witness: Down on the last of two stations has wrapped to the first.
C9_Witness ==
    /\ pc = "refresh" /\ key = "Down" /\ step = "StationSelection"
    /\ Len(stations) = 2 /\ station_index = 0 /\ need_refresh_tui

\* C10: on an empty list Up and Down neither panic nor change the index.
C10_EmptyListNoOp ==
    [][ ((Pressed("Up") \/ Pressed("Down")) /\ step # "EDR" /\ ActiveList = <<>>) =>
          (pc' # "panicked" /\ ActiveIndex' = ActiveIndex) ]_vars

\* The steam ids the services know of.
SteamIds == {"p1"}

\* C11: after a StationSelection refresh that fetched stations none of which
\* carries a dispatcher steam id, get_player_name finds no name for any
\* steam id, whatever an earlier refresh put into the player list.
C11_NoDispatcherNoName ==
    [][ (pc = "refresh" /\ step = "StationSelection" /\ pc' = "draw"
         /\ steam_ids(stations') = <<>>)
        => \A id \in SteamIds : get_player_name([players |-> players'], Some(id)) = None ]_vars

\* The minutes of a scheduled hour of a row, 0 when the row has none.
Minutes(o) == IF o = None THEN 0 ELSE o[1][1] * 60 + o[1][2]

\* The events a completed train of the trace stands for: none unless both
\* rows were found with the anchor not after the target; then, from the
\* target row k of its timetable, one Passing event when the row has no
\* stop type, Entering and Departing when it is "ph".
DerivedOf(l) ==
    IF ~(Found(l) /\ l.outcome = "Ok") \/ l.train_pos[1] > l.station_pos[1] THEN <<>>
    ELSE LET tt == l.timetable
             k == l.station_pos[1] + 1
             ev(time, ty, prev, next) ==
                 [name |-> <<l.train.train_name, " ", l.train.train_no>>,
                  time |-> time, planned_time |-> time, ty |-> ty,
                  player |-> l.train.t # "bot", prev |-> prev, next |-> next]
             from == <<tt[k - 1].station, "/L.", tt[k - 1].line>>
             to == <<tt[k + 1].station, "/L.", tt[k].line>>
             arr == Minutes(tt[k].scheduled_arrival_hour)
             dep == Minutes(tt[k].scheduled_departure_hour)
         IN  CASE tt[k].stop_type = None -> <<ev(arr, "Passing", from, to)>>
               [] tt[k].stop_type = Some("ph") ->
                     <<ev(arr, "Entering", from, <<"platform (", dep - arr, ")">>),
                       ev(dep, "Departing", <<"Platform">>, to)>>
               [] OTHER -> <<>>

RECURSIVE Derived(_)
Derived(tr) == IF tr = <<>> THEN <<>> ELSE DerivedOf(tr[1]) \o Derived(Tail(tr))

\* C12: after a successful Dispatch refresh the events are exactly those of
\* the trains and timetables this refresh fetched, in the order of the
\* trains; nothing of an earlier refresh is among them.
C12_EventsRebuilt ==
    (RefreshedEdr /\ pc = "draw") => events = Derived(trace)

\* C12 witness: a successful refresh has left a collection without an event
\* that the previous Dispatch frame showed.
C12_Witness ==
    /\ RefreshedEdr /\ pc = "draw" /\ frame.view = "EDR"
    /\ trace # <<>> /\ events # <<>>
    /\ \E i \in 1..Len(frame.rows) : \A j \in 1..Len(events) : events[j] # frame.rows[i]

\* C13: the loop reads the two flags separately. After a cursor move
\* (refresh not required, redraw required) refresh_data runs in that
\* iteration only if the refresh period has elapsed, never on account of a
\* flag; without it the state reaches the redraw as the key left it; and an
\* iteration that reaches main.rs 78 with the redraw flag set draws the state.
C13_RedrawWithoutRefresh ==
    [][ /\ (pc = "refresh" /\ key \in {"Up", "Down"} /\ step # "EDR") =>
              /\ ~need_refresh_data /\ need_refresh_tui
              /\ refreshed' \in {"no", "timeout"}
              /\ refreshed' = "no" => (pc' = "draw" /\ UNCHANGED state_vars)
              /\ pc' = "draw" => need_refresh_tui'
        /\ (pc = "draw" /\ need_refresh_tui) =>
              /\ pc' = "poll"
              /\ \E alg \in SortAlgorithms : frame' = draw(Self, alg).frame ]_vars

\* C13 witness: Down moved the station cursor, no refresh ran, and the loop
\* is about to redraw a frame that still shows the old selection.
C13_Witness ==
    /\ pc = "draw" /\ refreshed = "no" /\ need_refresh_tui /\ ~need_refresh_data
    /\ step = "StationSelection" /\ station_index = 1
    /\ frame.view = "StationSelection" /\ frame.selected = Some(0)

\* C14: when refresh_data returns an error the process leaves raw mode,
\* prints the error and ends, the frame staying as last drawn; an ended
\* process takes no further step (no refresh, no redraw).
C14_ErrorEndsProcess ==
    [][ /\ pc # "exited"
        /\ (pc = "refresh" /\ returned' = "Err") =>
              /\ pc' = "exited"
              /\ ~raw_mode'
              /\ stderr' = Append(stderr, "NetworkFailure")
              /\ frame' = frame ]_vars

\* C14 witness: a Dispatch refresh failed and the process has ended with the
\* error printed and the terminal restored.
C14_Witness ==
    /\ pc = "exited" /\ returned = "Err" /\ step = "EDR"
    /\ ~raw_mode /\ stderr = <<"NetworkFailure">>

C16_Serialized ==
    [][ /\ pc \in {"poll", "refresh", "draw"}
        /\ pc = "poll" =>
              /\ pc' \in {"refresh", "exited", "panicked"}
              /\ UNCHANGED <<refreshed, returned, trace, frame, servers, stations, players, events>>
        /\ pc = "refresh" =>
              /\ pc' \in {"draw", "exited", "panicked"}
              /\ key' = "none"
              /\ UNCHANGED <<frame, step, server_index, station_index,
                             selected_server, selected_station>>
        /\ pc = "draw" =>
              /\ pc' \in {"poll", "panicked"}
              /\ refreshed' = "no" /\ returned' = "none"
              /\ UNCHANGED <<key, servers, stations, players, step, server_index,
                             station_index, selected_server, selected_station,
                             need_refresh_data, need_refresh_tui>> ]_vars

\* C16 witness: an iteration has handled Enter, refreshed the Dispatch view
\* and drawn its events, and the loop polls again.
C16_Witness ==
    /\ pc = "poll" /\ step = "EDR" /\ frame.view = "EDR"
    /\ Len(frame.rows) >= 2 /\ frame.rows = events /\ refreshed = "no"

\* Row k of timetable tt has a name the prefix table knows, with this prefix.
Matches(tt, k, prefix) ==
    /\ tt[k].station \in DOMAIN station_name_to_prefix
    /\ station_name_to_prefix[tt[k].station] = prefix

\* pos is what a search for the first matching row gives: nothing when no
\* row matches, else the 0-based index of a matching row with none before it.
IsFirst(tt, prefix, pos) ==
    IF pos = None
    THEN \A k \in 1..Len(tt) : ~Matches(tt, k, prefix)
    ELSE /\ pos[1] + 1 \in 1..Len(tt)
         /\ Matches(tt, pos[1] + 1, prefix)
         /\ \A k \in 1..pos[1] : ~Matches(tt, k, prefix)

\* C17: for every train whose timetable was fetched, the anchor index is
\* the first row whose name resolves to the train's loc and the target index
\* the first row whose name resolves to the selected station's prefix; rows
\* with a name the table does not know match neither; and a train lacking
\* one of the two indices pushes no event and ends its iteration normally.
C17_FirstMatchingRows ==
    RefreshedEdr =>
        \A i \in 1..Len(trace) :
            LET l == trace[i]
            IN  l.fetched =>
                  /\ IsFirst(l.timetable, l.train.loc[1], l.train_pos)
                  /\ l.train_pos # None =>
                        IsFirst(l.timetable, selected_station[1].prefix, l.station_pos)
                  /\ (l.train_pos = None \/ l.station_pos = None) =>
                        (l.pushed = 0 /\ l.outcome = "Ok")

\* C17 witness: the selected station stands in two rows of a timetable that
\* also has a row of unknown name, and the earlier of the two was taken.
C17_Witness ==
    /\ RefreshedEdr /\ Len(trace) = 1 /\ trace[1].fetched
    /\ Found(trace[1])
    /\ \E k \in 1..Len(trace[1].timetable) :
          /\ k > trace[1].station_pos[1] + 1
          /\ Matches(trace[1].timetable, k, selected_station[1].prefix)
    /\ \E k \in 1..Len(trace[1].timetable) : trace[1].timetable[k].station = "X"

\* Train l of the trace completed on a pass-through target row (a row
\* without stop type, with a row before and a row after it).
PassThrough(l) ==
    /\ Found(l) /\ l.outcome = "Ok" /\ l.train_pos[1] <= l.station_pos[1]
    /\ l.stop[1].stop_type = None

\* Event e is the Passing event of train l: previous label from the row
\* before the target (its station and its line), next label from the station
\* of the row after the target and the line of the target row.
IsPassingOf(e, l) ==
    LET tt == l.timetable
        k == l.station_pos[1] + 1
    IN  /\ e.ty = "Passing"
        /\ e.name = <<l.train.train_name, " ", l.train.train_no>>
        /\ e.prev = <<tt[k - 1].station, "/L.", tt[k - 1].line>>
        /\ e.next = <<tt[k + 1].station, "/L.", tt[k].line>>

\* C18: a train on a pass-through target row has pushed one event, a Passing
\* event labelled "{prev.station}/L.{prev.line}" and
\* "{next.station}/L.{stop.line}", and every Passing event of the collection
\* is that of such a train.
C18_PassingLabels ==
    RefreshedEdr =>
        /\ \A i \in 1..Len(trace) :
              PassThrough(trace[i]) =>
                  /\ trace[i].pushed = 1
                  /\ \E j \in 1..Len(events) : IsPassingOf(events[j], trace[i])
        /\ \A j \in 1..Len(events) :
              events[j].ty = "Passing" =>
                  \E i \in 1..Len(trace) : PassThrough(trace[i]) /\ IsPassingOf(events[j], trace[i])

\* C18 witness: a Passing event whose next row lies on another line than
\* the target row, labelled with the line of the target row.
C18_Witness ==
    /\ RefreshedEdr /\ Len(trace) = 1 /\ PassThrough(trace[1]) /\ Len(events) = 1
    /\ LET tt == trace[1].timetable
           k == trace[1].station_pos[1] + 1
       IN  /\ tt[k + 1].line # tt[k].line
           /\ events[1].next = <<tt[k + 1].station, "/L.", tt[k].line>>

\* C19: for a platform stop the Entering event's next label is
\* "{platform}/{track}" when the row has both and "Not a platform stop!"
\* otherwise, and the Departing event's previous label is that combination
\* when present and the empty string otherwise. The rows the program reads
\* (data.rs 111-118) have neither a platform nor a track.
C19_PlatformLabels ==
    RefreshedEdr =>
        \A j \in 1..Len(events) :
            /\ events[j].ty = "Entering" => events[j].next = <<"Not a platform stop!">>
            /\ events[j].ty = "Departing" => events[j].prev = <<"">>

\* C20: every event's planned_time is the scheduled time it was built from,
\* and the ordering of two events is that of their times whatever their
\* planned_time: no value of planned_time, 0 included, switches the
\* comparison of times off.
C20_PlannedTimeNeverAbsent ==
    \A i, j \in 1..Len(events) :
        /\ events[i].planned_time = events[i].time
        /\ partial_cmp(events[i], events[j]) =
              Some(IF events[i].time < events[j].time THEN "Less"
                   ELSE IF events[i].time = events[j].time THEN "Equal" ELSE "Greater")

\* The events of sequence s at time t, in the order of s.
AtTime(s, t) == LET at(e) == e.time = t IN SelectSeq(s, at)

C22_IndicesValid ==
    overflow_checks =>
        /\ (pc = "poll" /\ step = "ServerSelection" /\ servers # <<>>)
              => server_index < Len(servers)
        /\ (pc = "poll" /\ step = "StationSelection" /\ stations # <<>>)
              => station_index < Len(stations)
        /\ ~(pc = "panicked" /\ key = "Enter" /\ step # "EDR" /\ ActiveList # <<>>)

\* C23: while the Dispatch view is active a selected station is present and
\* the station list is not empty: every train of a Dispatch refresh is given
\* a nearest station, and neither the refresh nor the redraw meets a missing
\* selection.
C23_DispatchHasSelection ==
    step = "EDR" =>
        /\ selected_station # None
        /\ stations # <<>>
        /\ \A i \in 1..Len(trace) : trace[i].train.loc # None

\* C23 witness: a Dispatch refresh has handled two trains for the captured
\* station and the redraw is due.
C23_Witness ==
    /\ step = "EDR" /\ pc = "draw" /\ returned = "Ok" /\ Len(trace) = 2
    /\ station_index < Len(stations)
    /\ selected_station = Some(stations[station_index + 1])

\* C24: a select() that changes the view sets need_refresh_data; with that
\* flag set the iteration runs refresh_data and reaches the redraw only if
\* it returned Ok; and whenever the loop redraws, the station list of the
\* StationSelection view was requested for the selected server and the
\* events of the Dispatch view were aligned to the selected station.
C24_RefreshBeforeRedraw ==
    [][ /\ (Pressed("Enter") /\ step' # step) => need_refresh_data'
        /\ (pc = "refresh" /\ need_refresh_data) =>
              (refreshed' = "flag" /\ (pc' = "draw" => returned' = "Ok"))
        /\ (pc = "draw" /\ need_refresh_tui /\ step = "StationSelection") =>
              fetched_for.stations = Some(selected_server)
        /\ (pc = "draw" /\ need_refresh_tui /\ step = "EDR") =>
              fetched_for.events = Some(selected_station[1].prefix) ]_vars

\* C24 witness: station B was selected in the StationSelection view, the
\* refresh on account of the flag has returned Ok with the events aligned to
\* B, and the Dispatch view is about to be drawn over the StationSelection
\* frame.
C24_Witness ==
    /\ pc = "draw" /\ step = "EDR" /\ refreshed = "flag" /\ returned = "Ok"
    /\ selected_station = Some(StationB) /\ fetched_for.events = Some("b")
    /\ frame.view = "StationSelection" /\ stations = <<StationA, StationB>>
    /\ station_index = 1

====
